---- MODULE Spec2Model ----
(***************************************************************************)
(* Verification model of three cfiles commands:                            *)
(*   - Merge::run        (src/src/commands/Merge.cpp)                      *)
(*   - Rdf::setup / accumulate / finish (src/src/commands/Rdf.cpp)         *)
(*   - the pass-through loop of HBonds::run (src/src/commands/HBonds.cpp)  *)
(* Each command has its own specification (SpecMerge, SpecRdf,             *)
(* SpecConvert); the variables of the commands that do not run stay at     *)
(* their idle values.                                                      *)
(*                                                                         *)
(* The content of an input trajectory is fixed but unknown to the program: *)
(* it is revealed frame by frame, when read() returns it.  A frame read    *)
(* from input i at file index s carries the identity <<i, s>>, and every   *)
(* atom of it the tag <<i, s, a>>, so that a written frame tells which     *)
(* file frames it was built from.                                          *)
(***************************************************************************)
EXTENDS Integers, Sequences, FiniteSets

VARIABLES
    command,        \* which command this run executes
    options,        \* Merge::Options (the fields the loop reads)
    inputs,         \* Merge: the input trajectories (step count, read cursor)
    frames,         \* Merge: std::vector<Frame> frames, the current slots
    step,           \* Merge: size_t step
    outfile,        \* Merge: the output trajectory
    merge_pc,       \* Merge: "run", "done" (return 0) or "failed" (throw)
    rdf,            \* Rdf: options_, selection_ and the position of the run
    histogram,      \* Rdf: the Histogram<double> the harness owns
    measured,       \* Rdf: what the accumulate calls did (latest, and each)
    convert         \* HBonds::run: options, loop position, frame read, output

mergeVars == <<options, inputs, frames, step, outfile, merge_pc>>

rdfVars == <<rdf, histogram, measured>>

vars == <<command, options, inputs, frames, step, outfile, merge_pc,
          rdf, histogram, measured, convert>>

(***************************************************************************)
(* Bounds                                                                  *)
(***************************************************************************)
MaxInputs == 2      \* number of <input> files of a merge
MaxSteps == 2       \* steps in one input trajectory
MaxArity == 3       \* atoms in one match of a selection

(***************************************************************************)
(* Unit cells and frames                                                   *)
(***************************************************************************)
InfiniteCell == [shape |-> "INFINITE", a |-> 0]

OrthoCell(len) == [shape |-> "ORTHORHOMBIC", a |-> len]

\* the cell of --cell
ForcedCell == OrthoCell(25)

\* Frame(): no atom, no velocities, no bond, infinite cell
DefaultFrame ==
    [id |-> <<0, 0>>, atoms |-> <<>>, hasVel |-> FALSE, vel |-> <<>>,
     bonds |-> {}, cell |-> InfiniteCell]

\* Vector3D(): the velocity add_atom stores when none is given
ZeroVelocity == <<0, 0, 0>>

\* what a file frame may look like: atom count, bonds, velocities, cell
FrameShapes ==
    { [size |-> 1, bonds |-> {}, hasVel |-> FALSE, cell |-> InfiniteCell],
      [size |-> 2, bonds |-> {<<0, 1>>}, hasVel |-> TRUE, cell |-> InfiniteCell],
      [size |-> 2, bonds |-> {<<0, 1>>}, hasVel |-> FALSE, cell |-> OrthoCell(10)],
      [size |-> 3, bonds |-> {<<1, 2>>}, hasVel |-> TRUE, cell |-> OrthoCell(10)],
      [size |-> 1, bonds |-> {}, hasVel |-> TRUE, cell |-> OrthoCell(12)],
      [size |-> 3, bonds |-> {<<0, 1>>, <<0, 2>>}, hasVel |-> FALSE,
       cell |-> [shape |-> "TRICLINIC", a |-> 10]] }

\* the frame at index s of input i, of shape sh
FileFrame(i, s, sh) ==
    [id |-> <<i, s>>,
     atoms |-> [a \in 1..sh.size |-> <<i, s, a>>],
     hasVel |-> sh.hasVel,
     vel |-> IF sh.hasVel THEN [a \in 1..sh.size |-> <<i, s, a>>] ELSE <<>>,
     bonds |-> sh.bonds,
     cell |-> sh.cell]

FrameSize(frame) == Len(frame.atoms)

(***************************************************************************)
(* The values of the variables of a command that does not run              *)
(***************************************************************************)
NoFrame == [id |-> <<0, 0>>, positions |-> <<>>, cell |-> InfiniteCell,
            matched |-> <<>>, bonds |-> {}]

MergeIdle ==
    /\ options = [custom_cell |-> FALSE, cell |-> InfiniteCell]
    /\ inputs = <<>> /\ frames = <<>> /\ step = 0
    /\ outfile = [nframes |-> 0, last |-> DefaultFrame]
    /\ merge_pc = "idle"

RdfIdle ==
    /\ rdf = [pc |-> "idle"]
    /\ histogram = [npoints |-> 0, rmax2 |-> 0, bins |-> <<>>]
    /\ measured = [frame |-> NoFrame, pairs |-> <<>>, npairs |-> 0,
                   visited |-> <<>>]

ConvertIdle == convert = [pc |-> "idle"]

(***************************************************************************)
(* Merge::run, one iteration of while (true)                               *)
(***************************************************************************)
\* line 102: if (step < inputs[i].nsteps())
ShouldRead(i) == step < inputs[i].nsteps

\* ReadFrames without the padding: a slot that is not read is emptied
ReadFramesNoPadding(fresh) ==
    [i \in 1..Len(inputs) |->
        IF step < inputs[i].nsteps
        THEN FileFrame(i, inputs[i].cursor, fresh[i])
        ELSE DefaultFrame]

\* lines 99-106: the slots after the read loop, given the frames read() returns
ReadFrames(fresh) ==
    [i \in 1..Len(inputs) |->
        IF ShouldRead(i) THEN FileFrame(i, inputs[i].cursor, fresh[i])
        ELSE frames[i]]

\* Trajectory::read advances the cursor of the inputs that were read
ReadInputs ==
    [i \in 1..Len(inputs) |->
        IF ShouldRead(i) THEN [inputs[i] EXCEPT !.cursor = @ + 1]
        ELSE inputs[i]]

\* the inputs the read loop reads in this iteration
Readers == { i \in 1..Len(inputs) : ShouldRead(i) }

\* DidReadOneFrame requiring every input to be read
DidReadAllFrames == \A i \in 1..Len(inputs) : step < inputs[i].nsteps

\* lines 99, 104: bool did_read_one_frame
DidReadOneFrame == Readers # {}

RECURSIVE FirstFinite(_, _)
\* lines 115-121: the first non-infinite cell, or UnitCell() when there is none
FirstFinite(fs, k) ==
    IF k > Len(fs) THEN InfiniteCell
    ELSE IF fs[k].cell.shape # "INFINITE" THEN fs[k].cell
    ELSE FirstFinite(fs, k + 1)

\* Reference taking the first cell, infinite or not
ReferenceFirstFrame(fs) == fs[1].cell

\* lines 115-121: auto reference
Reference(fs) == FirstFinite(fs, 1)

\* lines 125-134: some non-infinite cell differs from the reference
CellMismatch(fs) ==
    \E k \in 1..Len(fs) :
        /\ fs[k].cell.shape # "INFINITE"
        /\ fs[k].cell # Reference(fs)

\* lines 113-135: the iteration throws cfiles_error
ThrowsMismatch(fs) == ~options.custom_cell /\ CellMismatch(fs)

\* lines 137-142: bool one_frame_has_velocity
OneFrameHasVelocity(fs) == \E k \in 1..Len(fs) : fs[k].hasVel

\* lines 154-156: add_atom appends the atom, and a default velocity when the
\* output frame has velocities
AddAtoms(out, frame) ==
    [out EXCEPT
        !.atoms = @ \o frame.atoms,
        !.vel = IF out.hasVel
                THEN @ \o [a \in 1..FrameSize(frame) |-> ZeroVelocity]
                ELSE @]

\* CopyVelocities storing into a copy of the output array
CopyVelocitiesIntoCopy(out, frame, start) == out

\* lines 158-164: output_velocities[start + i] = velocities[i]
CopyVelocities(out, frame, start) ==
    IF frame.hasVel
    THEN [out EXCEPT !.vel =
            [p \in 1..Len(out.vel) |->
                IF start < p /\ p <= start + FrameSize(frame)
                THEN frame.vel[p - start] ELSE out.vel[p]]]
    ELSE out

\* AddBonds without the translation
AddBondsUntranslated(out, frame, start) ==
    [out EXCEPT !.bonds = @ \cup frame.bonds]

\* lines 167-169: add_bond(start + bond[0], start + bond[1])
AddBonds(out, frame, start) ==
    [out EXCEPT !.bonds =
        @ \cup { <<start + b[1], start + b[2]>> : b \in frame.bonds }]

RECURSIVE Concatenate(_, _, _, _)
\* lines 151-172: the loop over the frames, start advancing by frame.size()
Concatenate(fs, k, out, start) ==
    IF k > Len(fs) THEN out
    ELSE Concatenate(fs, k + 1,
            AddBonds(CopyVelocities(AddAtoms(out, fs[k]), fs[k], start),
                     fs[k], start),
            start + FrameSize(fs[k]))

\* lines 144-148: Frame(), with add_velocities() when a frame has velocities
EmptyOutput(fs) == [DefaultFrame EXCEPT !.hasVel = OneFrameHasVelocity(fs)]

\* lines 144-172: the output frame of one step; auto start = 0
OutputFrame(fs) == Concatenate(fs, 1, [EmptyOutput(fs) EXCEPT !.id = <<0, step>>], 0)

\* lines 92-94, 174: the output trajectory stores the frame, with the forced
\* cell when one was set
WriteFrame(frame) ==
    [nframes |-> outfile.nframes + 1,
     last |-> IF options.custom_cell THEN [frame EXCEPT !.cell = options.cell]
              ELSE frame]

\* Written with the write placed before the cell check
WrittenBeforeCheck(fs) == DidReadOneFrame

\* control reaches outfile.write (line 174) in this iteration
Written(fs) == DidReadOneFrame /\ ~ThrowsMismatch(fs)

\* lines 108-110: no input was read: break, return 0
MergeFinish ==
    /\ command = "merge" /\ merge_pc = "run"
    /\ ~DidReadOneFrame
    /\ merge_pc' = "done"
    /\ UNCHANGED <<command, options, inputs, frames, step, outfile>>
    /\ UNCHANGED <<rdfVars, convert>>

\* lines 99-135: the frames were read and their cells do not match: throw
MergeFail ==
    /\ command = "merge" /\ merge_pc = "run"
    /\ DidReadOneFrame
    /\ \E fresh \in [Readers -> FrameShapes] :
        /\ ThrowsMismatch(ReadFrames(fresh))
        /\ frames' = ReadFrames(fresh)
        /\ outfile' = IF Written(ReadFrames(fresh))
                      THEN WriteFrame(OutputFrame(ReadFrames(fresh)))
                      ELSE outfile
    /\ inputs' = ReadInputs
    /\ merge_pc' = "failed"
    /\ UNCHANGED <<command, options, step>>
    /\ UNCHANGED <<rdfVars, convert>>

\* lines 99-175: the frames were read, merged and written: step++
MergeWrite ==
    /\ command = "merge" /\ merge_pc = "run"
    /\ DidReadOneFrame
    /\ \E fresh \in [Readers -> FrameShapes] :
        /\ ~ThrowsMismatch(ReadFrames(fresh))
        /\ frames' = ReadFrames(fresh)
        /\ outfile' = IF Written(ReadFrames(fresh))
                      THEN WriteFrame(OutputFrame(ReadFrames(fresh)))
                      ELSE outfile
    /\ inputs' = ReadInputs
    /\ step' = step + 1
    /\ UNCHANGED <<command, options, merge_pc>>
    /\ UNCHANGED <<rdfVars, convert>>

\* lines 82-97: the state when the loop is entered
InitMerge ==
    /\ command = "merge"
    /\ \E n \in 1..MaxInputs :
        /\ inputs \in [1..n -> [nsteps : 0..MaxSteps, cursor : {0}]]
        /\ frames = [i \in 1..n |-> DefaultFrame]
    /\ \E forced \in BOOLEAN :
        options = [custom_cell |-> forced,
                   cell |-> IF forced THEN ForcedCell ELSE InfiniteCell]
    /\ step = 0
    /\ outfile = [nframes |-> 0, last |-> DefaultFrame]
    /\ merge_pc = "run"
    /\ RdfIdle /\ ConvertIdle

NextMerge == MergeFinish \/ MergeFail \/ MergeWrite

SpecMerge == InitMerge /\ [][NextMerge]_vars

(***************************************************************************)
(* Vectors and the periodic cell (chemfiles Vector3D, UnitCell)            *)
(***************************************************************************)
\* positions[j] - positions[i]
Sub(p, q) == [c \in 1..3 |-> p[c] - q[c]]

\* std::round(x / len): to the nearest integer, halves away from zero
RoundDiv(x, len) ==
    IF x >= 0 THEN (2 * x + len) \div (2 * len)
    ELSE -((len - 2 * x) \div (2 * len))

\* UnitCell::wrap: the minimum image of v; an infinite cell wraps nothing
Wrap(cell, v) ==
    IF cell.shape = "INFINITE" THEN v
    ELSE [c \in 1..3 |-> v[c] - RoundDiv(v[c], cell.a) * cell.a]

\* the square of norm(v)
Norm2(v) == v[1] * v[1] + v[2] * v[2] + v[3] * v[3]

\* UnitCell::volume: 0 for an infinite cell
Volume(cell) ==
    IF cell.shape = "INFINITE" THEN 0 ELSE cell.a * cell.a * cell.a

(***************************************************************************)
(* Histogram<double>.  A bin holds a real number, kept as the expression   *)
(* the program computed: ((add_1 / by_1 + add_2) / by_2 + ...) + add, with *)
(* one layer per normalize call and add the insertions since the last one. *)
(* The upper bound rmax is kept as rmax2 = 2 * rmax, a distance as its     *)
(* square.                                                                 *)
(***************************************************************************)
ZeroValue == [layers |-> <<>>, add |-> 0]

\* Histogram(npoints, 0, rmax)
NewHistogram(npoints, rmax2) ==
    [npoints |-> npoints, rmax2 |-> rmax2,
     bins |-> [b \in 1..npoints |-> ZeroValue]]

\* x lies in [0, rmax), for x the distance of square d2
InRange(h, d2) == 4 * d2 < h.rmax2 * h.rmax2

\* floor(x / bin_size), bin_size = rmax / npoints
BinOf(h, d2) ==
    CHOOSE b \in 0..(h.npoints - 1) :
        /\ b * b * h.rmax2 * h.rmax2 <= 4 * d2 * h.npoints * h.npoints
        /\ 4 * d2 * h.npoints * h.npoints < (b + 1) * (b + 1) * h.rmax2 * h.rmax2

\* Histogram::insert_at: one more in the bin of x, nothing out of range
InsertAt(h, d2) ==
    IF InRange(h, d2)
    THEN [h EXCEPT !.bins[BinOf(h, d2) + 1].add = @ + 1]
    ELSE h

RECURSIVE InsertAll(_, _, _)
\* the insert_at calls of one accumulate, in order
InsertAll(h, ds, k) ==
    IF k > Len(ds) THEN h ELSE InsertAll(InsertAt(h, ds[k]), ds, k + 1)

(***************************************************************************)
(* Rdf                                                                     *)
(***************************************************************************)
P0 == <<0, 0, 0>>

P1 == <<1, 0, 0>>

P3 == <<3, 0, 0>>

PD == <<1, 1, 0>>

\* the positions a frame of the trajectory may hold
RdfLayouts == { <<P0, P1>>, <<P0, P0>>, <<P0, P3>>, <<P0, PD, P3>>, <<P1, P3, P3>> }

RECURSIVE SortedSeq(_)
\* the atoms of S in increasing order
SortedSeq(S) ==
    IF S = {} THEN <<>>
    ELSE LET m == CHOOSE x \in S : \A y \in S : x <= y
         IN  <<m>> \o SortedSeq(S \ {m})

\* a frame of the trajectory: positions, cell, and the atoms the selection
\* matches in it (the selection language is chemfiles')
RdfFrames ==
    UNION { { [id |-> <<0, 0>>, positions |-> l, cell |-> c,
               matched |-> SortedSeq(S), bonds |-> {}] :
                c \in {InfiniteCell, OrthoCell(4)}, S \in SUBSET (0..(Len(l) - 1)) } :
            l \in RdfLayouts }

\* the command line: --max, --points
RdfArguments == { [max |-> 3, points |-> 2] }

\* the cell of --cell
RdfForcedCell == OrthoCell(4)

\* SelectionRejected off by one
SelectionRejectedAbove3(arity) == arity > 3

\* line 72: if (selection_.size() > 2)
SelectionRejected(arity) == arity > 2

\* lines 59, 64-68: options_.rmax, as 2 * rmax
SetupRmax2 ==
    IF rdf.custom_cell THEN rdf.cell.a ELSE 2 * rdf.max

\* Rdf::setup, lines 47-75
RdfSetup ==
    /\ command = "rdf" /\ rdf.pc = "setup"
    /\ histogram' = NewHistogram(rdf.npoints, SetupRmax2)
    /\ rdf' = [rdf EXCEPT
                !.rmax2 = SetupRmax2,
                !.pc = IF SelectionRejected(rdf.selection) THEN "failed" ELSE "ready"]
    /\ UNCHANGED <<command, measured, mergeVars, convert>>

\* the harness opens the trajectory once setup has returned
RdfOpen ==
    /\ command = "rdf" /\ rdf.pc = "ready"
    /\ rdf' = [rdf EXCEPT !.opened = TRUE, !.pc = "loop"]
    /\ UNCHANGED <<command, histogram, measured, mergeVars, convert>>

\* the frame the harness hands to accumulate: read, with the cell override
HarnessRead(frame) ==
    [frame EXCEPT
        !.id = <<1, rdf.nread>>,
        !.cell = IF rdf.custom_cell THEN rdf.cell ELSE @]

\* lines 102: the (i, j) of the two loops over matched, i outer
LoopPairs(matched) ==
    [k \in 1..(Len(matched) * Len(matched)) |->
        <<matched[((k - 1) \div Len(matched)) + 1],
          matched[((k - 1) % Len(matched)) + 1]>>]

\* selection_.evaluate for a pair selection: the matches pair a matched atom
\* with an atom that is not
EvaluatePairs(frame) ==
    LET n == Len(frame.positions)
        isMatched(a) == \E k \in 1..Len(frame.matched) : frame.matched[k] = a
        all == [k \in 1..(n * n) |-> <<(k - 1) \div n, (k - 1) % n>>]
    IN  SelectSeq(all, LAMBDA pr : isMatched(pr[1]) /\ ~isMatched(pr[2]))

\* SkipSelf never skipping
SkipNothing(pr) == FALSE

\* line 103: if (i == j) continue
SkipSelf(pr) == pr[1] = pr[2]

\* lines 105, 120: the square of rij
Rij2(frame, pr) ==
    Norm2(Wrap(frame.cell, Sub(frame.positions[pr[2] + 1], frame.positions[pr[1] + 1])))

\* lines 106, 121: if (rij < options_.rmax)
BelowRmax(d2) == 4 * d2 < rdf.rmax2 * rdf.rmax2

\* lines 97-126: the pairs that reach insert_at, in the order of the calls
MeasuredPairs(frame) ==
    LET candidates ==
            IF rdf.selection = 1
            THEN SelectSeq(LoopPairs(frame.matched), LAMBDA pr : ~SkipSelf(pr))
            ELSE EvaluatePairs(frame)
    IN  SelectSeq(candidates, LAMBDA pr : BelowRmax(Rij2(frame, pr)))

\* lines 129-130: double V = cell.volume(); if (V > 0) V = 1;
DensityVolume(cell) == IF Volume(cell) > 0 THEN 1 ELSE Volume(cell)

\* line 133: rho = frame.natoms() / V, as a fraction; den = 0 is the
\* division by zero of a double
Rho(frame) == [num |-> Len(frame.positions), den |-> DensityVolume(frame.cell)]

\* lines 134, 136-139: val / (norm * r * r) for bin i, with
\* norm = 1e-6 * 2 * 4 * pi * rho * npairs * dr and r = (i + 0.5) * dr
NormalizeBin(rho, npairs, i, val) ==
    [layers |-> Append(val.layers,
                       [add |-> val.add,
                        by |-> [rho |-> rho, npairs |-> npairs, bin |-> i]]),
     add |-> 0]

\* Histogram::normalize with the lambda of lines 136-139
Normalize(h, rho, npairs) ==
    [h EXCEPT !.bins =
        [b \in 1..h.npoints |-> NormalizeBin(rho, npairs, b - 1, h.bins[b])]]

\* Accumulate leaving the raw counts, without the normalization
AccumulateRaw(frame, h) ==
    InsertAll(h, [k \in 1..Len(MeasuredPairs(frame)) |->
                    Rij2(frame, MeasuredPairs(frame)[k])], 1)

\* Rdf::accumulate, lines 92-140
Accumulate(frame, h) ==
    LET pairs == MeasuredPairs(frame)
        dists == [k \in 1..Len(pairs) |-> Rij2(frame, pairs[k])]
    IN  Normalize(InsertAll(h, dists, 1), Rho(frame), Len(pairs))

\* what one accumulate call did with its frame: the density and pair count
\* of that frame, and the number of insert_at calls that fell in each bin
Visit(frame, h) ==
    LET pairs == MeasuredPairs(frame)
    IN  [rho |-> Rho(frame),
         npairs |-> Len(pairs),
         inserted |-> [b \in 1..h.npoints |->
            Cardinality({ k \in 1..Len(pairs) :
                /\ InRange(h, Rij2(frame, pairs[k]))
                /\ BinOf(h, Rij2(frame, pairs[k])) = b - 1 })]]

\* the harness reads the next frame and calls accumulate
RdfAccumulate ==
    /\ command = "rdf" /\ rdf.pc = "loop"
    /\ rdf.nread < rdf.nsteps
    /\ \E file \in RdfFrames :
        LET frame == HarnessRead(file)
        IN  /\ histogram' = Accumulate(frame, histogram)
            /\ measured' = [frame |-> frame,
                            pairs |-> MeasuredPairs(frame),
                            npairs |-> Len(MeasuredPairs(frame)),
                            visited |-> Append(measured.visited,
                                               Visit(frame, histogram))]
    /\ rdf' = [rdf EXCEPT !.nread = @ + 1]
    /\ UNCHANGED <<command, mergeVars, convert>>

\* Rdf::finish, lines 77-90: the table is written, or the file does not open
RdfFinish ==
    /\ command = "rdf" /\ rdf.pc = "loop"
    /\ rdf.nread = rdf.nsteps
    /\ \E is_open \in BOOLEAN :
        rdf' = [rdf EXCEPT
                    !.pc = IF is_open THEN "done" ELSE "finish_failed",
                    !.output = IF is_open THEN histogram.bins ELSE @]
    /\ UNCHANGED <<command, histogram, measured, mergeVars, convert>>

\* the state when setup is called
InitRdf ==
    /\ command = "rdf"
    /\ \E args \in RdfArguments, arity \in 1..MaxArity, forced \in BOOLEAN,
          n \in 0..MaxSteps :
        rdf = [pc |-> "setup", selection |-> arity,
               max |-> args.max, npoints |-> args.points, rmax2 |-> 0,
               custom_cell |-> forced,
               cell |-> IF forced THEN RdfForcedCell ELSE InfiniteCell,
               nsteps |-> n, nread |-> 0, opened |-> FALSE, output |-> <<>>]
    /\ histogram = [npoints |-> 0, rmax2 |-> 0, bins |-> <<>>]
    /\ measured = [frame |-> NoFrame, pairs |-> <<>>, npairs |-> 0,
                   visited |-> <<>>]
    /\ MergeIdle /\ ConvertIdle

NextRdf == RdfSetup \/ RdfOpen \/ RdfAccumulate \/ RdfFinish

SpecRdf == InitRdf /\ [][NextRdf]_vars

(***************************************************************************)
(* HBonds::run: the pass-through conversion loop                           *)
(***************************************************************************)
\* the frames the input trajectory may hold
ConvertFrames ==
    { [id |-> <<0, 0>>, positions |-> l, cell |-> c, matched |-> <<>>, bonds |-> {}] :
        l \in { <<P1>>, <<<<13, 0, 0>>>>, <<P3, <<-3, 6, 1>>>> },
        c \in {InfiniteCell, OrthoCell(4)} }

\* the bonds guess_topology may find (chemfiles' heuristic)
GuessedBonds(frame) ==
    SUBSET { <<a, b>> \in (0..(Len(frame.positions) - 1)) \X (0..(Len(frame.positions) - 1)) : a < b }

\* lines 121-123, 130: infile.read(), with the cell of set_cell
ConvertRead(file) ==
    [file EXCEPT
        !.id = <<1, convert.i>>,
        !.cell = IF convert.custom_cell THEN ForcedCell ELSE @]

\* lines 137-142: for (auto position: positions) position = cell.wrap(position);
\* position is a copy of the element, so the stores never reach the frame
WrapLoop(frame) ==
    LET wrapped == [p \in 1..Len(frame.positions) |->
                        Wrap(frame.cell, frame.positions[p])]
    IN  frame

\* lines 129-146: one iteration of the loop over the steps
ConvertStep ==
    /\ command = "convert" /\ convert.pc = "loop"
    /\ convert.i < convert.nsteps
    /\ \E file \in ConvertFrames :
        \E guess \in GuessedBonds(file) :
            LET read == ConvertRead(file)
                guessed == IF convert.guess_bonds
                           THEN [read EXCEPT !.bonds = guess] ELSE read
                frame == IF convert.wrap THEN WrapLoop(guessed) ELSE guessed
            IN  /\ (~convert.guess_bonds => guess = {})
                /\ convert' = [convert EXCEPT
                                !.i = @ + 1,
                                !.read = read,
                                !.nframes = @ + 1,
                                !.last = frame]
    /\ UNCHANGED <<command, mergeVars, rdfVars>>

\* lines 129, 148: the loop ends, return 0
ConvertFinish ==
    /\ command = "convert" /\ convert.pc = "loop"
    /\ convert.i >= convert.nsteps
    /\ convert' = [convert EXCEPT !.pc = "done"]
    /\ UNCHANGED <<command, mergeVars, rdfVars>>

\* lines 115-127: the state when the loop is entered
InitConvert ==
    /\ command = "convert"
    /\ \E wrap \in BOOLEAN, guess \in BOOLEAN, forced \in BOOLEAN, n \in 0..MaxSteps :
        convert = [pc |-> "loop", wrap |-> wrap, guess_bonds |-> guess,
                   custom_cell |-> forced, nsteps |-> n, i |-> 0,
                   read |-> NoFrame, nframes |-> 0, last |-> NoFrame]
    /\ MergeIdle /\ RdfIdle

NextConvert == ConvertStep \/ ConvertFinish

SpecConvert == InitConvert /\ [][NextConvert]_vars

(***************************************************************************)
(* Properties of Merge::run                                                *)
(***************************************************************************)
Min(a, b) == IF a < b THEN a ELSE b

RECURSIVE MaxNSteps(_)
\* the step count of the longest input among the first n
MaxNSteps(n) ==
    IF n = 0 THEN 0
    ELSE IF inputs[n].nsteps > MaxNSteps(n - 1) THEN inputs[n].nsteps
    ELSE MaxNSteps(n - 1)

RECURSIVE AtomsBefore(_, _)
\* the atom count of the slots before slot i
AtomsBefore(fs, i) ==
    IF i = 1 THEN 0 ELSE AtomsBefore(fs, i - 1) + FrameSize(fs[i - 1])

\* the slots are the frames the latest written frame was built from
SlotsWritten == merge_pc \in {"run", "done"} /\ outfile.nframes >= 1

\* C1: the block of input i in output step k holds the atoms of frame
\* min(k, n_i - 1) of input i, for every input with n_i >= 1: a fresh frame
\* while k < n_i, the last frame read afterwards.
C1_PaddingByRepetition ==
    LET k == outfile.nframes - 1
        out == outfile.last
    IN  /\ \A p \in 1..Len(out.atoms) :
            /\ out.atoms[p][1] \in 1..Len(inputs)
            /\ out.atoms[p][2] = Min(k, inputs[out.atoms[p][1]].nsteps - 1)
        /\ SlotsWritten =>
            \A i \in 1..Len(inputs) : inputs[i].nsteps >= 1 =>
                /\ frames[i].id = <<i, Min(k, inputs[i].nsteps - 1)>>
                /\ FrameSize(frames[i]) >= 1
                /\ \A a \in 1..FrameSize(frames[i]) :
                        out.atoms[AtomsBefore(frames, i) + a] =
                            <<i, Min(k, inputs[i].nsteps - 1), a>>

\* a written step in which input 1 is padded and input 2 is fresh
C1_Witness ==
    /\ SlotsWritten /\ Len(inputs) = 2
    /\ outfile.nframes = 2
    /\ inputs[1].nsteps = 1 /\ inputs[2].nsteps = 2
    /\ outfile.last.atoms[1] = <<1, 0, 1>>

\* C2: the loop terminates and returns with exactly max_i(n_i) frames
\* written (none when every input is empty).  Termination in safety form:
\* an iteration is always possible while the loop runs, every iteration
\* either leaves the loop or writes one frame and advances step, and step
\* never exceeds max_i(n_i); the iteration that reads nothing writes nothing.
C2_WritesMaxSteps ==
    /\ [](/\ step <= MaxNSteps(Len(inputs))
          /\ merge_pc = "run" => ENABLED NextMerge
          /\ merge_pc = "done" =>
                /\ outfile.nframes = MaxNSteps(Len(inputs))
                /\ step = MaxNSteps(Len(inputs)))
    /\ [][/\ merge_pc = "run"
          /\ \/ merge_pc' # "run"
             \/ /\ step' = step + 1
                /\ outfile'.nframes = outfile.nframes + 1
          /\ merge_pc' = "done" => outfile' = outfile]_vars

\* a finished merge of inputs of different lengths
C2_Witness ==
    /\ merge_pc = "done" /\ Len(inputs) = 2
    /\ inputs[1].nsteps = 2 /\ inputs[2].nsteps = 1
    /\ outfile.nframes = 2

\* C3: the bonds of a written frame are the bonds of the current frames,
\* each translated by the atom count of the slots before it in that step,
\* so every bond stays inside the block of its input.
C3_BondTranslation ==
    SlotsWritten =>
        /\ outfile.last.bonds =
                UNION { { <<b[1] + AtomsBefore(frames, i), b[2] + AtomsBefore(frames, i)>> :
                            b \in frames[i].bonds } : i \in 1..Len(frames) }
        /\ \A b \in outfile.last.bonds :
                \E i \in 1..Len(frames) :
                    /\ AtomsBefore(frames, i) <= b[1]
                    /\ b[1] < AtomsBefore(frames, i) + FrameSize(frames[i])
                    /\ AtomsBefore(frames, i) <= b[2]
                    /\ b[2] < AtomsBefore(frames, i) + FrameSize(frames[i])

\* the 2-atom frame with bond (0,1) before the 3-atom frame with bond (1,2)
C3_Witness ==
    /\ SlotsWritten /\ Len(frames) = 2
    /\ FrameSize(frames[1]) = 2 /\ frames[2].bonds = {<<1, 2>>}
    /\ outfile.last.bonds = {<<0, 1>>, <<3, 4>>}

\* two current frames have non-infinite cells that are not equal
UnequalFiniteCells(fs) ==
    \E k, l \in 1..Len(fs) :
        /\ fs[k].cell.shape # "INFINITE"
        /\ fs[l].cell.shape # "INFINITE"
        /\ fs[k].cell # fs[l].cell

\* C4: without a forced cell a step fails iff two current frames have
\* non-infinite cells that are not equal; with a forced cell no step fails.
C4_CellMismatch ==
    /\ merge_pc = "failed" => ~options.custom_cell /\ UnequalFiniteCells(frames)
    /\ (SlotsWritten /\ ~options.custom_cell) => ~UnequalFiniteCells(frames)
    /\ options.custom_cell => merge_pc # "failed"

\* a step that fails although its first frame has an infinite cell
C4_Witness ==
    /\ merge_pc = "failed" /\ Len(frames) = 2
    /\ frames[1].cell = OrthoCell(10) /\ frames[2].cell = OrthoCell(12)

\* C5: when step k fails, exactly the k frames of steps 0..k-1 are written.
C5_AbortKeepsPriorSteps ==
    merge_pc = "failed" =>
        /\ outfile.nframes = step
        /\ outfile.last.id = <<0, IF step = 0 THEN 0 ELSE step - 1>>
        /\ (step = 0 => outfile.last = DefaultFrame)

\* a failure at step 1, after step 0 was written
C5_Witness == merge_pc = "failed" /\ step = 1 /\ outfile.nframes = 1

\* C10: a written frame has velocities iff a current frame has; then the
\* block of an input with velocities holds them, and the block of an input
\* without holds the default velocity.
C10_Velocities ==
    SlotsWritten =>
        /\ outfile.last.hasVel = (\E i \in 1..Len(frames) : frames[i].hasVel)
        /\ ~outfile.last.hasVel => outfile.last.vel = <<>>
        /\ outfile.last.hasVel =>
            /\ Len(outfile.last.vel) = Len(outfile.last.atoms)
            /\ \A i \in 1..Len(frames) : \A j \in 1..FrameSize(frames[i]) :
                    outfile.last.vel[AtomsBefore(frames, i) + j] =
                        IF frames[i].hasVel THEN frames[i].vel[j] ELSE ZeroVelocity

\* an input without velocities merged before one with velocities
C10_Witness ==
    /\ SlotsWritten /\ Len(frames) = 2
    /\ ~frames[1].hasVel /\ frames[2].hasVel
    /\ outfile.last.vel[FrameSize(frames[1]) + 1] = frames[2].vel[1]

(***************************************************************************)
(* Properties of Rdf                                                       *)
(***************************************************************************)
\* accumulate has run at least once
Accumulated == command = "rdf" /\ rdf.nread >= 1

\* the layer the latest normalize call added to bin index i
LastLayer(i) ==
    histogram.bins[i + 1].layers[Len(histogram.bins[i + 1].layers)]

\* two fractions are the same finite number
SameFraction(x, y) ==
    /\ x.den # 0 /\ y.den # 0
    /\ x.num * y.den = y.num * x.den

\* atom_count / cell_volume, or atom_count when the volume is not positive
StatedRho(frame) ==
    [num |-> Len(frame.positions),
     den |-> IF Volume(frame.cell) > 0 THEN Volume(frame.cell) ELSE 1]

\* C6: the normalization of a frame divides bin i by K * rho * n_pairs * dr *
\* r_i^2 with rho = atom_count / cell_volume when the volume is positive and
\* rho = atom_count otherwise, and n_pairs the pair count of that frame.
C6_NormalizationDensity ==
    Accumulated =>
        \A i \in 0..(histogram.npoints - 1) :
            /\ LastLayer(i).by.bin = i
            /\ LastLayer(i).by.npairs = measured.npairs
            /\ SameFraction(LastLayer(i).by.rho, StatedRho(measured.frame))

\* C8: setup fails exactly for the selections of more than two atoms, and
\* then no file was opened and no frame read or accumulated.
C8_ArityRejection ==
    command = "rdf" =>
        /\ rdf.selection > 2 => rdf.pc \in {"setup", "failed"}
        /\ rdf.selection <= 2 => rdf.pc # "failed"
        /\ rdf.pc = "failed" =>
            /\ ~rdf.opened /\ rdf.nread = 0 /\ rdf.output = <<>>
            /\ measured.frame = NoFrame /\ measured.pairs = <<>>
            /\ \A b \in 1..histogram.npoints : histogram.bins[b] = ZeroValue

\* setup has rejected a selection of triples
C8_Witness == command = "rdf" /\ rdf.pc = "failed" /\ rdf.selection = 3

\* the number of times x occurs in seq
Count(seq, x) == Cardinality({ k \in 1..Len(seq) : seq[k] = x })

RECURSIVE InsertedInFrame(_)
\* the insertions of the latest frame into the bins of index below n
InsertedInFrame(n) ==
    IF n = 0 THEN 0 ELSE InsertedInFrame(n - 1) + LastLayer(n - 1).add

\* C9: with a selection of single atoms, accumulate inserts exactly once
\* every ordered pair (i, j), i # j, of matched atoms whose minimum-image
\* distance is below rmax, counts it once, and inserts and counts nothing else
\* (no self-pair).
C9_NoSelfPairs ==
    (Accumulated /\ rdf.selection = 1) =>
        LET frame == measured.frame
            atoms == 0..(Len(frame.positions) - 1)
            isMatched(a) == \E k \in 1..Len(frame.matched) : frame.matched[k] = a
        IN  /\ \A i \in atoms, j \in atoms :
                Count(measured.pairs, <<i, j>>) =
                    IF /\ isMatched(i) /\ isMatched(j) /\ i # j
                       /\ 4 * Rij2(frame, <<i, j>>) < rdf.rmax2 * rdf.rmax2
                    THEN 1 ELSE 0
            /\ measured.npairs = Len(measured.pairs)
            /\ InsertedInFrame(histogram.npoints) = measured.npairs

\* three matched atoms of which one pair is out of range
C9_Witness ==
    /\ Accumulated /\ rdf.selection = 1
    /\ measured.frame.positions = <<P0, PD, P3>>
    /\ measured.frame.cell = InfiniteCell
    /\ measured.frame.matched = <<0, 1, 2>>
    /\ measured.npairs = 4

\* the value of a bin as a sum: term t is the count inserted between the
\* normalize calls t - 1 and t, with the factors it has been divided by since
Terms(val) ==
    [t \in 1..Len(val.layers) |->
        [count |-> val.layers[t].add,
         divs |-> [s \in 1..(Len(val.layers) - t + 1) |-> val.layers[t + s - 1].by]]]

\* the factor of the frame of visit v for bin index i
FrameFactor(v, i) == [rho |-> v.rho, npairs |-> v.npairs, bin |-> i]

\* C11: accumulate normalizes every bin at the end of every call: after m
\* frames, what frame t inserted in a bin has been divided by the factors of
\* frames t, t + 1, ..., m, each built from the density and pair count of its
\* own frame; finish normalizes nothing and leaves the histogram unchanged.
C11_NormalizedEveryCall ==
    /\ []((command = "rdf" /\ rdf.pc \in {"loop", "done", "finish_failed"}) =>
            /\ Len(measured.visited) = rdf.nread
            /\ \A i \in 0..(histogram.npoints - 1) :
                LET val == histogram.bins[i + 1]
                    m == rdf.nread
                IN  /\ val.add = 0
                    /\ Len(Terms(val)) = m
                    /\ \A t \in 1..m :
                        /\ Terms(val)[t].count = measured.visited[t].inserted[i + 1]
                        /\ Terms(val)[t].divs =
                            [s \in 1..(m - t + 1) |->
                                FrameFactor(measured.visited[t + s - 1], i)])
    /\ [][(rdf.pc = "loop" /\ rdf'.pc \in {"done", "finish_failed"}) =>
            /\ histogram' = histogram
            /\ (rdf'.pc = "done" => rdf'.output = histogram.bins)]_vars

\* two frames with different factors were visited, the first of which
\* inserted a pair in bin 0 that both normalizations have divided
C11_Witness ==
    /\ command = "rdf" /\ rdf.pc = "done" /\ rdf.nread = 2
    /\ measured.visited[1].inserted[1] > 0
    /\ measured.visited[1].npairs # measured.visited[2].npairs
    /\ Len(Terms(histogram.bins[1])[1].divs) = 2

(***************************************************************************)
(* Properties of the conversion loop                                       *)
(***************************************************************************)
\* C7: one frame is written per input step, in input order; its positions
\* are the cell-wrapped images of the positions read when wrapping is
\* requested, and the positions read otherwise.
C7_WrappedOutput ==
    (command = "convert" /\ convert.nframes >= 1) =>
        /\ convert.nframes = convert.i
        /\ convert.last.id = <<1, convert.nframes - 1>>
        /\ convert.last.positions =
            IF convert.wrap
            THEN [p \in 1..Len(convert.read.positions) |->
                    Wrap(convert.read.cell, convert.read.positions[p])]
            ELSE convert.read.positions

====
